---- MODULE Spec2Model ----
(***************************************************************************)
(* Model of package mtx (internal/mtx/mtx.go): RWMtx[T], a value behind a  *)
(* sync.RWMutex, and the map and slice guards RWMtxMap and RWMtxSlice that *)
(* embed it.  Goroutines are the threads 1..NThreads; every guard method   *)
(* is a frame on the calling thread's stack that moves through             *)
(*   "call"  about to take the lock (m.RLock() / m.Lock())                 *)
(*   "rsem"  RLock blocked on readerSem    "wsem"  Lock blocked on         *)
(*                                                  writerSem              *)
(*   "body", "body2", "nested"  the statements run under the lock          *)
(*   "exit"  the body has returned or panicked; the deferred unlock is due *)
(* The lock itself is Go's sync.RWMutex (embedded at mtx.go:8); its fields *)
(* w, readerCount, readerWait, readerSem and writerSem keep their names.   *)
(***************************************************************************)
EXTENDS Integers, Sequences, FiniteSets, TLC

\* ---- bounds of the model
NThreads == 3
MaxCalls == 3
MaxNestCalls == 2
MaxSliceCalls == 3
MaxMapCalls == 3

Threads == 1..NThreads
\* The arguments Set is called with (InitVal is not among them).
SetVals == {1}

\* sync.RWMutex: the offset Lock subtracts from readerCount to announce a writer
rwmutexMaxReaders == 1073741824

\* NewRWMtx(42) of the tests, scaled down: the value the guard is built with
InitVal == 0

VARIABLES
    w,            \* RWMutex.w: the thread holding the writers' mutex, 0 when free
    readerCount,  \* RWMutex.readerCount: readers in or waiting, minus the offset
    readerWait,   \* RWMutex.readerWait: readers the announced writer waits for
    readerSem,    \* RWMutex.readerSem: wake-ups posted for blocked readers
    writerSem,    \* RWMutex.writerSem: wake-ups posted for the blocked writer
    v,            \* RWMtx.v: the guarded value
    heap,         \* backing arrays of slices (the slice guard)
    stack,        \* per thread: the guard calls in progress, innermost last
    done,         \* how many top-level calls have exited: of Set ("Set"), with the
                  \* incrementing callback ("incr"), with an error ("error"), by
                  \* panic ("panic")
    hist,         \* the recorded calls that have exited, in order of exit
    held,         \* per thread: the slice its caller last got back from the guard
    budget        \* how many more top-level calls the threads will make

vars == <<w, readerCount, readerWait, readerSem, writerSem, v, heap, stack, done, hist,
          held, budget>>
obsVars == <<done, hist, held>>
lockVars == <<w, readerCount, readerWait, readerSem, writerSem>>

\* ---- frames and results

\* A slice value: the backing array (an index of heap, 0 for nil), len and cap.
NilSlice == [ptr |-> 0, len |-> 0, cap |-> 0]

NoRes == [val |-> 0, ok |-> FALSE, err |-> "nil", seq |-> <<>>, hdr |-> NilSlice,
          panicked |-> FALSE]

\* rec: the call is recorded in hist; seen: how many recorded calls had
\* exited when this one was made (they precede it in real time).
\* hdr: the slice value a reader callback was handed, clb(m.v).
\* pre: the guarded sequence as it was when the body started.
\* who: the calling thread, where the record of the call is to name it.
\* shown: the sequences the guard has shown since the traversal began.
Frame(op, cb, arg, rec) ==
    [op |-> op, cb |-> cb, arg |-> arg, pc |-> "call", tmp |-> 0,
     hdr |-> NilSlice, pre |-> <<>>, res |-> NoRes, blocked |-> FALSE, rec |-> rec, seen |-> Len(hist),
     who |-> 0, shown |-> {}]

\* The methods as they would be if every one of them took the read lock.
Kind_ReadLockOnly(op) == "R"

\* Which lock a method takes: RLock for the readers, Lock for the writers.
ReaderOps == {"Get", "RWith", "RWithE", "Load", "Len", "Each", "Clone"}
Kind(op) == IF op \in ReaderOps THEN "R" ELSE "W"

Depth(t) == Len(stack[t])
Top(t) == stack[t][Depth(t)]
Idle(t) == stack[t] = <<>>
At(t, pc) == ~Idle(t) /\ Top(t).pc = pc

\* A thread with no call in progress may make one while the budget lasts.
MayCall(t) == Idle(t) /\ budget > 0
Charge(t) == budget' = budget - 1

SetTop(t, f) == [stack EXCEPT ![t] = [@ EXCEPT ![Depth(t)] = f]]
Goto(t, pc) == SetTop(t, [Top(t) EXCEPT !.pc = pc])

\* The record a finished top-level call leaves in the caller's log.
Done(t, f) == [op |-> f.op, cb |-> f.cb, arg |-> f.arg, res |-> f.res, seen |-> f.seen,
               who |-> f.who]

\* ---- slices and their backing arrays

\* The zero-size allocation (make([]T, 0)) is heap[ZeroBase], an empty array.
ZeroBase == 1
\* The elements a slice value shows, in the arrays hp and in the present ones.
ContentsIn(hp, h) == IF h.len = 0 THEN <<>> ELSE SubSeq(hp[h.ptr], 1, h.len)
Contents(h) == ContentsIn(heap, h)
\* What a caller holds of a slice it got back: the value, the contents the
\* caller knows it to have (those it had, and what the caller wrote since),
\* whether the caller has written through it, and the method it came from.
\* (hit: a write of the caller changed the guarded sequence).
Handle(h) == [hdr |-> h, snap |-> Contents(h), wrote |-> FALSE, hit |-> FALSE, from |-> "none"]
NoHandle == [hdr |-> NilSlice, snap |-> <<>>, wrote |-> FALSE, hit |-> FALSE, from |-> "none"]

\* A call's exit: the frame is popped.  A top-level call is logged; a call made
\* from inside a callback hands its outcome to the frame of that callback, which
\* has then finished (or, if the inner call panicked, unwinds too); tmp of that
\* frame notes that the inner call came back: 1, or 2 if it had to block.
Popped(t) ==
    IF Depth(t) = 1 THEN <<>>
    ELSE LET p == stack[t][Depth(t) - 1]
             q == [p EXCEPT !.pc = "exit", !.tmp = IF Top(t).blocked THEN 2 ELSE 1,
                            !.res = [@ EXCEPT !.panicked = Top(t).res.panicked]]
         IN  SubSeq(stack[t], 1, Depth(t) - 2) \o <<q>>

Return(t) ==
    /\ stack' = [stack EXCEPT ![t] = Popped(t)]
    /\ IF Depth(t) = 1
       THEN /\ done' = [done EXCEPT !["Set"] = @ + (IF Top(t).op = "Set" THEN 1 ELSE 0),
                                    !["incr"] = @ + (IF Top(t).cb = "incr" THEN 1 ELSE 0),
                                    !["error"] = @ + (IF Top(t).res.err # "nil" THEN 1 ELSE 0),
                                    !["panic"] = @ + (IF Top(t).res.panicked THEN 1 ELSE 0)]
            /\ hist' = IF Top(t).rec THEN Append(hist, Done(t, Top(t))) ELSE hist
            /\ held' = IF Top(t).res.hdr.ptr # 0
                       THEN [held EXCEPT ![t] = [Handle(Top(t).res.hdr) EXCEPT !.from = Top(t).op]]
                       ELSE held
       ELSE UNCHANGED obsVars

\* ---- sync.RWMutex, as the guard's methods use it

\* RLock as it would be if it did not look for an announced writer.
RLock_NoWriterCheck(t) ==
    /\ At(t, "call") /\ Kind(Top(t).op) = "R"
    /\ readerCount' = readerCount + 1
    /\ stack' = Goto(t, "body")
    /\ UNCHANGED <<w, readerWait, readerSem, writerSem, v, heap, obsVars, budget>>

\* m.RLock(): readerCount.Add(1); a negative result means a writer has announced
\* itself, and the reader sleeps on readerSem.
RLock(t) ==
    /\ At(t, "call") /\ Kind(Top(t).op) = "R"
    /\ readerCount' = readerCount + 1
    /\ stack' = IF readerCount' < 0
                THEN SetTop(t, [Top(t) EXCEPT !.pc = "rsem", !.blocked = TRUE])
                ELSE Goto(t, "body")
    /\ UNCHANGED <<w, readerWait, readerSem, writerSem, v, heap, obsVars, budget>>

\* The blocked reader is woken by a wake-up the leaving writer posted.
RLockWake(t) ==
    /\ At(t, "rsem")
    /\ readerSem > 0
    /\ readerSem' = readerSem - 1
    /\ stack' = Goto(t, "body")
    /\ UNCHANGED <<w, readerCount, readerWait, writerSem, v, heap, obsVars, budget>>

\* Lock as it would be if the writer did not wait for the readers inside.
Lock_NoDrain(t) ==
    /\ At(t, "call") /\ Kind(Top(t).op) = "W"
    /\ w = 0
    /\ w' = t
    /\ readerCount' = readerCount - rwmutexMaxReaders
    /\ readerWait' = readerWait + readerCount
    /\ stack' = Goto(t, "body")
    /\ UNCHANGED <<readerSem, writerSem, v, heap, obsVars, budget>>

\* Lock as it would be if writers did not exclude each other through w.
Lock_NoMutex(t) ==
    /\ At(t, "call") /\ Kind(Top(t).op) = "W"
    /\ w' = t
    /\ readerCount' = IF readerCount < 0 THEN readerCount ELSE readerCount - rwmutexMaxReaders
    /\ readerWait' = readerWait + (IF readerCount < 0 THEN 0 ELSE readerCount)
    /\ stack' = IF readerCount > 0 /\ readerWait' # 0
                THEN SetTop(t, [Top(t) EXCEPT !.pc = "wsem", !.blocked = TRUE])
                ELSE Goto(t, "body")
    /\ UNCHANGED <<readerSem, writerSem, v, heap, obsVars, budget>>

\* m.Lock(): take the writers' mutex w, announce the writer by subtracting the
\* offset from readerCount, and wait on writerSem for the r readers inside.
Lock(t) ==
    /\ At(t, "call") /\ Kind(Top(t).op) = "W"
    /\ w = 0
    /\ w' = t
    /\ readerCount' = readerCount - rwmutexMaxReaders
    /\ readerWait' = readerWait + readerCount
    /\ stack' = IF readerCount # 0 /\ readerWait' # 0
                THEN SetTop(t, [Top(t) EXCEPT !.pc = "wsem", !.blocked = TRUE])
                ELSE Goto(t, "body")
    /\ UNCHANGED <<readerSem, writerSem, v, heap, obsVars, budget>>

\* The blocked writer is woken by the last of the readers it waited for.
LockWake(t) ==
    /\ At(t, "wsem")
    /\ writerSem > 0
    /\ writerSem' = writerSem - 1
    /\ stack' = Goto(t, "body")
    /\ UNCHANGED <<w, readerCount, readerWait, readerSem, v, heap, obsVars, budget>>

\* defer m.RUnlock(): readerCount.Add(-1); with a writer announced (rUnlockSlow)
\* readerWait.Add(-1), and the last awaited reader posts writerSem.  The method
\* then returns (or goes on panicking) to its caller.
RUnlock(t) ==
    /\ At(t, "exit") /\ Kind(Top(t).op) = "R"
    /\ readerCount' = readerCount - 1
    /\ IF readerCount' < 0
       THEN /\ readerWait' = readerWait - 1
            /\ writerSem' = IF readerWait' = 0 THEN writerSem + 1 ELSE writerSem
       ELSE UNCHANGED <<readerWait, writerSem>>
    /\ Return(t)
    /\ UNCHANGED <<w, readerSem, v, heap, budget>>

\* Unlock as it would be if it posted no wake-ups for the blocked readers.
Unlock_NoWake(t) ==
    /\ At(t, "exit") /\ Kind(Top(t).op) = "W"
    /\ readerCount' = readerCount + rwmutexMaxReaders
    /\ w' = 0
    /\ Return(t)
    /\ UNCHANGED <<readerWait, readerSem, writerSem, v, heap, budget>>

\* Unlock as it would be if it were not deferred: a panic of the callback skips it.
Unlock_NotDeferred(t) ==
    /\ At(t, "exit") /\ Kind(Top(t).op) = "W"
    /\ IF Top(t).res.panicked
       THEN UNCHANGED <<w, readerCount, readerSem>>
       ELSE /\ readerCount' = readerCount + rwmutexMaxReaders
            /\ readerSem' = readerSem + readerCount'
            /\ w' = 0
    /\ Return(t)
    /\ UNCHANGED <<readerWait, writerSem, v, heap, budget>>

\* defer m.Unlock(): readerCount.Add(rwmutexMaxReaders) withdraws the
\* announcement, every reader blocked meanwhile gets a wake-up, w is released.
Unlock(t) ==
    /\ At(t, "exit") /\ Kind(Top(t).op) = "W"
    /\ readerCount' = readerCount + rwmutexMaxReaders
    /\ readerSem' = readerSem + readerCount'
    /\ w' = 0
    /\ Return(t)
    /\ UNCHANGED <<readerWait, writerSem, v, heap, budget>>

\* ---- RWMtx[T]: the bodies run under the lock

\* Get: return m.v
GetBody(t) ==
    /\ At(t, "body") /\ Top(t).op = "Get"
    /\ stack' = SetTop(t, [Top(t) EXCEPT !.pc = "exit", !.res = [@ EXCEPT !.val = v]])
    /\ UNCHANGED <<lockVars, v, heap, obsVars, budget>>

\* Set: m.v = v
SetBody(t) ==
    /\ At(t, "body") /\ Top(t).op = "Set"
    /\ v' = Top(t).arg
    /\ stack' = Goto(t, "exit")
    /\ UNCHANGED <<lockVars, heap, obsVars, budget>>

\* RWith / RWithE with a callback that looks at the value it is handed, clb(m.v)
CbRead(t) ==
    /\ At(t, "body") /\ Top(t).op \in {"RWith", "RWithE"} /\ Top(t).cb = "read"
    /\ stack' = SetTop(t, [Top(t) EXCEPT !.pc = "exit", !.res = [@ EXCEPT !.val = v]])
    /\ UNCHANGED <<lockVars, v, heap, obsVars, budget>>

\* With / WithE with the callback  func(p *int) { x := *p; *p = x + 1 }:
\* the read through the pointer ...
CbIncrLoad(t) ==
    /\ At(t, "body") /\ Top(t).op \in {"With", "WithE"} /\ Top(t).cb = "incr"
    /\ stack' = SetTop(t, [Top(t) EXCEPT !.pc = "body2", !.tmp = v])
    /\ UNCHANGED <<lockVars, v, heap, obsVars, budget>>

\* ... and the write back through it.
CbIncrStore(t) ==
    /\ At(t, "body2") /\ Top(t).cb = "incr"
    /\ v' = Top(t).tmp + 1
    /\ stack' = Goto(t, "exit")
    /\ UNCHANGED <<lockVars, heap, obsVars, budget>>

\* CbFail as it would be if the method dropped its callback's result, as RWith
\* and With do with  _ = m.RWithE(...).
CbFail_Dropped(t) ==
    /\ At(t, "body") /\ Top(t).op \in {"RWithE", "WithE"} /\ Top(t).cb = "fail"
    /\ stack' = Goto(t, "exit")
    /\ UNCHANGED <<lockVars, v, heap, obsVars, budget>>

\* RWithE / WithE with a callback that returns an error (TestRWMtx_WithE):
\* return clb(...) makes it the method's result.
CbFail(t) ==
    /\ At(t, "body") /\ Top(t).op \in {"RWithE", "WithE"} /\ Top(t).cb = "fail"
    /\ stack' = SetTop(t, [Top(t) EXCEPT !.pc = "exit", !.res = [@ EXCEPT !.err = "fail"]])
    /\ UNCHANGED <<lockVars, v, heap, obsVars, budget>>

\* A scoped method with a callback that panics (as the callback of Remove does
\* on an index out of range): the method unwinds through its deferred unlock.
CbPanic(t) ==
    /\ At(t, "body") /\ Top(t).op \in {"RWith", "RWithE", "With", "WithE"}
    /\ Top(t).cb = "panic"
    /\ stack' = SetTop(t, [Top(t) EXCEPT !.pc = "exit", !.res = [@ EXCEPT !.panicked = TRUE]])
    /\ UNCHANGED <<lockVars, v, heap, obsVars, budget>>

\* RWith / RWithE / With / WithE with a callback that calls a method of the same
\* guard: the inner call is a new frame on the same thread, and the callback
\* goes on only when that call has come back.
CbNest(t) ==
    /\ At(t, "body") /\ Top(t).cb = "nest"
    /\ LET i == Top(t).arg
       IN  stack' = [stack EXCEPT ![t] =
                        SubSeq(@, 1, Depth(t) - 1)
                        \o <<[Top(t) EXCEPT !.pc = "nested"], Frame(i[1], i[2], i[3], FALSE)>>]
    /\ UNCHANGED <<lockVars, v, heap, obsVars, budget>>

\* ---- the callers of a value guard RWMtx[int]

ValOps ==
    {<<"Get", "none", 0>>, <<"RWith", "read", 0>>, <<"With", "incr", 0>>,
     <<"WithE", "fail", 0>>, <<"RWithE", "fail", 0>>,
     <<"With", "panic", 0>>, <<"RWith", "panic", 0>>}
    \cup {<<"Set", "none", x>> : x \in SetVals}

CallVal(t) ==
    /\ MayCall(t)
    /\ Charge(t)
    /\ \E o \in ValOps : stack' = [stack EXCEPT ![t] = <<Frame(o[1], o[2], o[3], FALSE)>>]
    /\ UNCHANGED <<lockVars, v, heap, obsVars>>

\* Callers whose callback calls back into the guard (the misuse of spec 4.1).
ScopedOps == {"RWith", "RWithE", "With", "WithE"}
InnerOps == {<<"Get", "none", 0>>, <<"Set", "none", 0>>}

CallNest(t) ==
    /\ MayCall(t)
    /\ Charge(t)
    /\ \E o \in ScopedOps, i \in InnerOps :
           stack' = [stack EXCEPT ![t] = <<Frame(o, "nest", i, FALSE)>>]
    /\ UNCHANGED <<lockVars, v, heap, obsVars>>

LockInit ==
    /\ w = 0 /\ readerCount = 0 /\ readerWait = 0 /\ readerSem = 0 /\ writerSem = 0

\* No call has been made yet.
NoCalls ==
    /\ stack = [t \in Threads |-> <<>>]
    /\ done = [o \in {"Set", "incr", "error", "panic"} |-> 0]
    /\ hist = <<>>
    /\ held = [t \in Threads |-> NoHandle]

\* NewRWMtx(InitVal), about to be used by the threads for MaxCalls calls.
Init ==
    /\ LockInit /\ NoCalls
    /\ v = InitVal
    /\ heap = <<>>
    /\ budget = MaxCalls

LockNext(t) ==
    \/ RLock(t) \/ RLockWake(t) \/ Lock(t) \/ LockWake(t) \/ RUnlock(t) \/ Unlock(t)

ValNext(t) ==
    \/ GetBody(t) \/ SetBody(t) \/ CbRead(t) \/ CbIncrLoad(t) \/ CbIncrStore(t) \/ CbFail(t)
    \/ CbPanic(t)

Next == \E t \in Threads : CallVal(t) \/ LockNext(t) \/ ValNext(t)

Spec == Init /\ [][Next]_vars

NextReentrant ==
    \E t \in Threads : CallVal(t) \/ CallNest(t) \/ CbNest(t) \/ LockNext(t) \/ ValNext(t)

InitReentrant ==
    /\ LockInit /\ NoCalls
    /\ v = InitVal
    /\ heap = <<>>
    /\ budget = MaxNestCalls

SpecReentrant == InitReentrant /\ [][NextReentrant]_vars

\* ---- RWMtxSlice[int]: the bodies run under the lock

\* The capacity append gives the new backing array (runtime growslice: the
\* needed length when that is more than double the old capacity, else double).
GrowCap(old, need) == IF need > 2 * old THEN need ELSE 2 * old

\* append(h, els...): in place when the capacity allows, else into a new
\* backing array that starts as a copy.  The new slice value and the new heap.
GoAppend(h, els) ==
    LET n == h.len + Len(els)
    IN  IF n <= h.cap
        THEN [hdr |-> [h EXCEPT !.len = n],
              heap |-> IF Len(els) = 0 THEN heap
                       ELSE [heap EXCEPT ![h.ptr] =
                                [j \in 1..h.cap |->
                                    IF h.len < j /\ j <= n THEN els[j - h.len] ELSE @[j]]]]
        ELSE LET c == GrowCap(h.cap, n)
             IN  [hdr |-> [ptr |-> Len(heap) + 1, len |-> n, cap |-> c],
                  heap |-> Append(heap,
                              [j \in 1..c |->
                                  IF j <= h.len THEN heap[h.ptr][j]
                                  ELSE IF j <= n THEN els[j - h.len] ELSE 0])]

\* make([]T, n) followed by copy(out, src): a slice of its own with src's elements.
GoMakeCopy(src) ==
    IF src.len = 0
    THEN [hdr |-> [ptr |-> ZeroBase, len |-> 0, cap |-> 0], heap |-> heap]
    ELSE [hdr |-> [ptr |-> Len(heap) + 1, len |-> src.len, cap |-> src.len],
          heap |-> Append(heap, Contents(src))]

\* Clear: *v = nil; *v = make([]T, 0)
SliceClear(t) ==
    /\ At(t, "body") /\ Top(t).op = "Clear"
    /\ v' = [ptr |-> ZeroBase, len |-> 0, cap |-> 0]
    /\ stack' = SetTop(t, [Top(t) EXCEPT !.pc = "exit", !.pre = Contents(v)])
    /\ UNCHANGED <<lockVars, heap, obsVars, budget>>

\* RemoveLoad as it would be if the index were checked against the capacity.
RemoveLoad_CapCheck(t) ==
    /\ At(t, "body") /\ Top(t).op = "Remove"
    /\ LET i == Top(t).arg
       IN  stack' = SetTop(t,
               IF i < 0 \/ i >= v.cap
               THEN [Top(t) EXCEPT !.pc = "exit", !.pre = Contents(v),
                                   !.res = [@ EXCEPT !.panicked = TRUE]]
               ELSE [Top(t) EXCEPT !.pc = "body2", !.pre = Contents(v),
                                   !.res = [@ EXCEPT !.val = heap[v.ptr][i + 1]]])
    /\ UNCHANGED <<lockVars, v, heap, obsVars, budget>>

\* Remove, first statement: out = (*v)[i], which panics on an index out of range.
RemoveLoad(t) ==
    /\ At(t, "body") /\ Top(t).op = "Remove"
    /\ LET i == Top(t).arg
       IN  stack' = SetTop(t,
               IF i < 0 \/ i >= v.len
               THEN [Top(t) EXCEPT !.pc = "exit", !.pre = Contents(v),
                                   !.res = [@ EXCEPT !.panicked = TRUE]]
               ELSE [Top(t) EXCEPT !.pc = "body2", !.pre = Contents(v),
                                   !.res = [@ EXCEPT !.val = heap[v.ptr][i + 1]]])
    /\ UNCHANGED <<lockVars, v, heap, obsVars, budget>>

\* RemoveShift as it would be if it cut the slice without moving the elements.
RemoveShift_NoCopy(t) ==
    /\ At(t, "body2") /\ Top(t).op = "Remove"
    /\ v' = [v EXCEPT !.len = v.len - 1]
    /\ stack' = Goto(t, "exit")
    /\ UNCHANGED <<lockVars, heap, obsVars, budget>>

\* Remove, second statement: *v = (*v)[:i+copy((*v)[i:], (*v)[i+1:])].
\* copy moves the n = len-(i+1) elements after index i one place down in the
\* backing array; the slice is cut to i+n.
RemoveShift(t) ==
    /\ At(t, "body2") /\ Top(t).op = "Remove"
    /\ LET i == Top(t).arg
           n == v.len - (i + 1)
       IN  /\ heap' = [heap EXCEPT ![v.ptr] =
                          [j \in 1..v.cap |-> IF i < j /\ j <= i + n THEN @[j + 1] ELSE @[j]]]
           /\ v' = [v EXCEPT !.len = i + n]
    /\ stack' = Goto(t, "exit")
    /\ UNCHANGED <<lockVars, obsVars, budget>>

\* Each: the callback of RWith is handed the slice value and ranges over it ...
EachBegin(t) ==
    /\ At(t, "body") /\ Top(t).op = "Each"
    /\ stack' = SetTop(t, [Top(t) EXCEPT !.pc = "loop", !.hdr = v, !.pre = Contents(v),
                                         !.tmp = 0, !.shown = {Contents(v)}])
    /\ UNCHANGED <<lockVars, v, heap, obsVars, budget>>

\* ... clb(e) for the next element (the callback of the tests collects them) ...
EachStep(t) ==
    /\ At(t, "loop") /\ Top(t).cb = "collect"
    /\ Top(t).tmp < Top(t).hdr.len
    /\ stack' = SetTop(t, [Top(t) EXCEPT
                              !.tmp = @ + 1,
                              !.res = [@ EXCEPT !.seq = Append(@, heap[Top(t).hdr.ptr][Top(t).tmp + 1])]])
    /\ UNCHANGED <<lockVars, v, heap, obsVars, budget>>

\* ... until the range is exhausted.
EachEnd(t) ==
    /\ At(t, "loop")
    /\ Top(t).tmp = Top(t).hdr.len
    /\ stack' = Goto(t, "exit")
    /\ UNCHANGED <<lockVars, v, heap, obsVars, budget>>

\* Append: *v = append(*v, els...)
AppendBody(t) ==
    /\ At(t, "body") /\ Top(t).op = "Append"
    /\ LET r == GoAppend(v, Top(t).arg)
       IN  v' = r.hdr /\ heap' = r.heap
    /\ stack' = SetTop(t, [Top(t) EXCEPT !.pc = "exit", !.pre = Contents(v)])
    /\ UNCHANGED <<lockVars, obsVars, budget>>

\* Unshift as it would be if it added its item at the end.
UnshiftBody_AtEnd(t) ==
    /\ At(t, "body") /\ Top(t).op = "Unshift"
    /\ LET r == GoAppend(v, <<Top(t).arg>>)
       IN  v' = r.hdr /\ heap' = r.heap
    /\ stack' = SetTop(t, [Top(t) EXCEPT !.pc = "exit", !.pre = Contents(v)])
    /\ UNCHANGED <<lockVars, obsVars, budget>>

\* Unshift: *v = append([]T{el}, *v...): the one-element literal is the slice
\* appended to, so the result has a backing array of its own.
UnshiftBody(t) ==
    /\ At(t, "body") /\ Top(t).op = "Unshift"
    /\ LET n == 1 + v.len
           c == IF n <= 1 THEN 1 ELSE GrowCap(1, n)
       IN  /\ heap' = Append(heap, [j \in 1..c |->
                                      IF j = 1 THEN Top(t).arg
                                      ELSE IF j <= n THEN heap[v.ptr][j - 1] ELSE 0])
           /\ v' = [ptr |-> Len(heap) + 1, len |-> n, cap |-> c]
    /\ stack' = SetTop(t, [Top(t) EXCEPT !.pc = "exit", !.pre = Contents(v)])
    /\ UNCHANGED <<lockVars, obsVars, budget>>

\* Clone as it would be if it returned the slice it was handed.
CloneBody_Alias(t) ==
    /\ At(t, "body") /\ Top(t).op = "Clone"
    /\ stack' = SetTop(t, [Top(t) EXCEPT !.pc = "exit", !.res = [@ EXCEPT !.hdr = v]])
    /\ UNCHANGED <<lockVars, v, heap, obsVars, budget>>

\* Clone: out = make([]T, len(v)); copy(out, v)
CloneBody(t) ==
    /\ At(t, "body") /\ Top(t).op = "Clone"
    /\ LET r == GoMakeCopy(v)
       IN  /\ heap' = r.heap
           /\ stack' = SetTop(t, [Top(t) EXCEPT !.pc = "exit", !.pre = Contents(v),
                                                !.res = [@ EXCEPT !.hdr = r.hdr]])
    /\ UNCHANGED <<lockVars, v, obsVars, budget>>

\* Len: out = len(v)
SliceLen(t) ==
    /\ At(t, "body") /\ Top(t).op = "Len"
    /\ stack' = SetTop(t, [Top(t) EXCEPT !.pc = "exit", !.res = [@ EXCEPT !.val = v.len]])
    /\ UNCHANGED <<lockVars, v, heap, obsVars, budget>>

\* Get, promoted from the embedded RWMtx[[]T]: return m.v, the slice value itself.
GetSlice(t) ==
    /\ At(t, "body") /\ Top(t).op = "Get"
    /\ stack' = SetTop(t, [Top(t) EXCEPT !.pc = "exit", !.res = [@ EXCEPT !.hdr = v]])
    /\ UNCHANGED <<lockVars, v, heap, obsVars, budget>>

\* ---- the callers of a slice guard

\* The elements a call puts in are tagged with the call (its number in the
\* budget) and their place among its arguments, so that all elements differ;
\* Poison is the value a caller overwrites an element of a slice it got back
\* with (clone[0] = 99 in TestRWMtxSlice_Clone).
Fresh(k) == 10 * budget + k
Poison == 99
\* How many arguments Append is called with, and the indexes Remove is called with.
AppendLens == {1, 2}
RemoveIndexes == {-1, 0, 1, 2}
\* The goroutines that use the slice guard.
SliceThreads == {1, 2}

SliceOps ==
    {<<"Clear", "none", 0>>, <<"Clone", "none", 0>>, <<"Len", "none", 0>>,
     <<"Each", "collect", 0>>}
    \cup {<<"Append", "none", [k \in 1..n |-> Fresh(k)]>> : n \in AppendLens}
    \cup {<<"Unshift", "none", Fresh(0)>>}
    \cup {<<"Remove", "none", i>> : i \in RemoveIndexes}

CallSlice(t) ==
    /\ t \in SliceThreads
    /\ MayCall(t)
    /\ Charge(t)
    /\ \E o \in SliceOps : stack' = [stack EXCEPT ![t] = <<Frame(o[1], o[2], o[3], FALSE)>>]
    /\ UNCHANGED <<lockVars, v, heap, obsVars>>

CallGetSlice(t) ==
    /\ t \in SliceThreads
    /\ MayCall(t)
    /\ Charge(t)
    /\ stack' = [stack EXCEPT ![t] = <<Frame("Get", "none", 0, FALSE)>>]
    /\ UNCHANGED <<lockVars, v, heap, obsVars>>

\* The caller overwrites an element of the slice it got back, outside any lock.
\* A traversal in progress elsewhere is shown the guarded sequence as it is then.
CallerWrite(t) ==
    /\ Idle(t)
    /\ \E j \in 1..held[t].hdr.len :
          /\ heap[held[t].hdr.ptr][j] # Poison
          /\ heap' = [heap EXCEPT ![held[t].hdr.ptr][j] = Poison]
          /\ held' = [held EXCEPT ![t].wrote = TRUE,
                                  ![t].snap = [@ EXCEPT ![j] = Poison],
                                  ![t].hit = @ \/ (held[t].hdr.ptr = v.ptr /\ j <= v.len)]
    /\ stack' = [u \in Threads |->
                    IF At(u, "loop")
                    THEN <<[Top(u) EXCEPT !.shown = @ \cup {ContentsIn(heap', v)}]>>
                    ELSE stack[u]]
    /\ UNCHANGED <<lockVars, v, done, hist, budget>>

\* var s RWMtxSlice[int]: the zero value, a nil slice.
InitSlice ==
    /\ LockInit /\ NoCalls
    /\ v = NilSlice
    /\ heap = << <<>> >>
    /\ budget = MaxSliceCalls

SliceNext(t) ==
    \/ SliceClear(t) \/ RemoveLoad(t) \/ RemoveShift(t) \/ EachBegin(t) \/ EachStep(t)
    \/ EachEnd(t) \/ AppendBody(t) \/ UnshiftBody(t) \/ CloneBody(t) \/ SliceLen(t)

NextSlice ==
    \E t \in Threads : CallSlice(t) \/ LockNext(t) \/ SliceNext(t) \/ CallerWrite(t)

SpecSlice == InitSlice /\ [][NextSlice]_vars

NextLeak ==
    \E t \in Threads :
        \/ CallSlice(t) \/ CallGetSlice(t) \/ GetSlice(t)
        \/ LockNext(t) \/ SliceNext(t) \/ CallerWrite(t)

SpecLeak == InitSlice /\ [][NextLeak]_vars

\* ---- RWMtxMap: the guarded value is a map, a function on the keys present

Keys == {1, 2}
\* The keys that calls of LoadAndDelete and Delete are made with.
DeleteKeys == {1}
MapThreads == {1, 2}
EmptyMap == [k \in {} |-> 0]

\* Go's map operations: m[k] = x, the two-valued m[k], delete(m, k), len(m).
MapPut(m, k, x) == [j \in DOMAIN m \cup {k} |-> IF j = k THEN x ELSE m[j]]
MapGet(m, k) == IF k \in DOMAIN m THEN [val |-> m[k], ok |-> TRUE] ELSE [val |-> 0, ok |-> FALSE]
MapDelete(m, k) == [j \in DOMAIN m \ {k} |-> m[j]]
MapLen(m) == Cardinality(DOMAIN m)

\* StoreBody as it would be if the callback were handed a copy of the map.
StoreBody_OnCopy(t) ==
    /\ At(t, "body") /\ Top(t).op = "Store"
    /\ stack' = Goto(t, "exit")
    /\ UNCHANGED <<lockVars, v, heap, obsVars, budget>>

\* Store: (*m)[k] = v
StoreBody(t) ==
    /\ At(t, "body") /\ Top(t).op = "Store"
    /\ v' = MapPut(v, Top(t).arg[1], Top(t).arg[2])
    /\ stack' = Goto(t, "exit")
    /\ UNCHANGED <<lockVars, heap, obsVars, budget>>

\* Load: out, ok = m[k]
LoadBody(t) ==
    /\ At(t, "body") /\ Top(t).op = "Load"
    /\ LET r == MapGet(v, Top(t).arg)
       IN  stack' = SetTop(t, [Top(t) EXCEPT !.pc = "exit",
                                             !.res = [@ EXCEPT !.val = r.val, !.ok = r.ok]])
    /\ UNCHANGED <<lockVars, v, heap, obsVars, budget>>

\* LoadAndDelete, first statement: out, loaded = (*m)[k]
\* (pre: the map as the callback found it)
LoadAndDeleteLoad(t) ==
    /\ At(t, "body") /\ Top(t).op = "LoadAndDelete"
    /\ LET r == MapGet(v, Top(t).arg)
       IN  stack' = SetTop(t, [Top(t) EXCEPT !.pc = "body2", !.pre = v,
                                             !.res = [@ EXCEPT !.val = r.val, !.ok = r.ok]])
    /\ UNCHANGED <<lockVars, v, heap, obsVars, budget>>

\* LoadAndDelete as it would be without its second statement.
LoadAndDeleteDelete_Skipped(t) ==
    /\ At(t, "body2") /\ Top(t).op = "LoadAndDelete"
    /\ stack' = Goto(t, "exit")
    /\ UNCHANGED <<lockVars, v, heap, obsVars, budget>>

\* LoadAndDelete, second statement: delete(*m, k)
LoadAndDeleteDelete(t) ==
    /\ At(t, "body2") /\ Top(t).op = "LoadAndDelete"
    /\ v' = MapDelete(v, Top(t).arg)
    /\ stack' = Goto(t, "exit")
    /\ UNCHANGED <<lockVars, heap, obsVars, budget>>

\* Delete as it would be if it removed a key that is absent by emptying the map.
DeleteBody_Clears(t) ==
    /\ At(t, "body") /\ Top(t).op = "Delete"
    /\ v' = IF Top(t).arg \in DOMAIN v THEN MapDelete(v, Top(t).arg) ELSE EmptyMap
    /\ stack' = SetTop(t, [Top(t) EXCEPT !.pc = "exit", !.pre = v])
    /\ UNCHANGED <<lockVars, heap, obsVars, budget>>

\* Delete: delete(*m, k)
DeleteBody(t) ==
    /\ At(t, "body") /\ Top(t).op = "Delete"
    /\ v' = MapDelete(v, Top(t).arg)
    /\ stack' = SetTop(t, [Top(t) EXCEPT !.pc = "exit", !.pre = v])
    /\ UNCHANGED <<lockVars, heap, obsVars, budget>>

\* Len: out = len(m)
MapLenBody(t) ==
    /\ At(t, "body") /\ Top(t).op = "Len"
    /\ stack' = SetTop(t, [Top(t) EXCEPT !.pc = "exit", !.res = [@ EXCEPT !.val = MapLen(v)]])
    /\ UNCHANGED <<lockVars, v, heap, obsVars, budget>>

\* Clear as it would be if it removed the entries of the keys in DeleteKeys only.
MapClear_SomeKeys(t) ==
    /\ At(t, "body") /\ Top(t).op = "Clear"
    /\ v' = [k \in DOMAIN v \ DeleteKeys |-> v[k]]
    /\ stack' = Goto(t, "exit")
    /\ UNCHANGED <<lockVars, heap, obsVars, budget>>

\* Clear: clear(*m)
MapClear(t) ==
    /\ At(t, "body") /\ Top(t).op = "Clear"
    /\ v' = EmptyMap
    /\ stack' = Goto(t, "exit")
    /\ UNCHANGED <<lockVars, heap, obsVars, budget>>

\* The calls made on the map; each Store stores a value of its own.
MapOps ==
    {<<"Store", "none", <<k, 10 * budget>> >> : k \in Keys}
    \cup {<<"Load", "none", k>> : k \in Keys}
    \cup {<<o, "none", k>> : o \in {"LoadAndDelete", "Delete"}, k \in DeleteKeys}
    \cup {<<"Len", "none", 0>>, <<"Clear", "none", 0>>}

\* A thread calls a method of the map; the call is recorded in hist.
CallMap(t) ==
    /\ t \in MapThreads
    /\ MayCall(t)
    /\ \E c \in MapOps : stack' = [stack EXCEPT ![t] = <<Frame(c[1], c[2], c[3], TRUE)>>]
    /\ Charge(t)
    /\ UNCHANGED <<lockVars, v, heap, obsVars>>

\* NewRWMtxMap(), about to be used for MaxMapCalls calls.
InitMap ==
    /\ LockInit /\ NoCalls
    /\ v = EmptyMap
    /\ heap = <<>>
    /\ budget = MaxMapCalls

MapNext(t) ==
    \/ StoreBody(t) \/ LoadBody(t) \/ LoadAndDeleteLoad(t) \/ LoadAndDeleteDelete(t)
    \/ DeleteBody(t) \/ MapLenBody(t) \/ MapClear(t)

MapStep == \E t \in Threads : LockNext(t) \/ MapNext(t)

NextMap == \E t \in Threads : CallMap(t) \/ LockNext(t) \/ MapNext(t)

SpecMap == InitMap /\ [][NextMap]_vars

\* ---- TestRWMtxMap_ConcurrentAccess: writer i stores i*10 under the key i,
\* while a reader calls Len and then Load.

Writers == 1..(NThreads - 1)
Readers == {NThreads}
\* How many of its calls a goroutine has returned from: a writer's Store is
\* the one of its key, the Len and the Load are the reader's.
CallsOf(t) ==
    Cardinality({i \in 1..Len(hist) :
        IF t \in Writers THEN hist[i].op = "Store" /\ hist[i].arg[1] = t
                         ELSE hist[i].op \in {"Len", "Load"}})

WriterCall(t) ==
    /\ t \in Writers /\ Idle(t) /\ CallsOf(t) = 0
    /\ stack' = [stack EXCEPT ![t] = <<Frame("Store", "none", <<t, 10 * t>>, TRUE)>>]
    /\ UNCHANGED <<lockVars, v, heap, obsVars, budget>>

ReaderCall(t) ==
    /\ t \in Readers /\ Idle(t)
    /\ \/ /\ CallsOf(t) = 0
          /\ stack' = [stack EXCEPT ![t] = <<Frame("Len", "none", 0, TRUE)>>]
       \/ /\ CallsOf(t) = 1
          /\ \E i \in Writers :
                stack' = [stack EXCEPT ![t] = <<Frame("Load", "none", i, TRUE)>>]
    /\ UNCHANGED <<lockVars, v, heap, obsVars, budget>>

InitAccess ==
    /\ LockInit /\ NoCalls
    /\ v = EmptyMap
    /\ heap = <<>>
    /\ budget = 0

NextAccess ==
    \E t \in Threads :
        \/ WriterCall(t) \/ ReaderCall(t) \/ LockNext(t)
        \/ StoreBody(t) \/ LoadBody(t) \/ MapLenBody(t)

SpecAccess == InitAccess /\ [][NextAccess]_vars

\* ---- the fallible scoped methods, RWithE and WithE, with their calls recorded

MaxErrCalls == 3

\* RWithE / WithE with a callback that returns an error, and with one that
\* looks at (or increments) the value and returns nil.
ErrOps ==
    {<<"RWithE", "fail", 0>>, <<"WithE", "fail", 0>>,
     <<"RWithE", "read", 0>>, <<"WithE", "incr", 0>>}

CallErr(t) ==
    /\ MayCall(t)
    /\ Charge(t)
    /\ \E o \in ErrOps : stack' = [stack EXCEPT ![t] = <<Frame(o[1], o[2], o[3], TRUE)>>]
    /\ UNCHANGED <<lockVars, v, heap, obsVars>>

InitErr ==
    /\ LockInit /\ NoCalls
    /\ v = InitVal
    /\ heap = <<>>
    /\ budget = MaxErrCalls

NextErr ==
    \E t \in Threads :
        \/ CallErr(t) \/ LockNext(t)
        \/ CbRead(t) \/ CbIncrLoad(t) \/ CbIncrStore(t) \/ CbFail(t)

SpecErr == InitErr /\ [][NextErr]_vars

\* ---- TestRWMtx: Set, Get, With and RWith on a value guard, the calls
\* recorded with their callers

MaxSeqCalls == 3
SeqThreads == {1, 2}
PutVals == {2}

\* CbPut as it would be if the callback were handed a copy of the value.
CbPut_OnCopy(t) ==
    /\ At(t, "body") /\ Top(t).op = "With" /\ Top(t).cb = "put"
    /\ stack' = Goto(t, "exit")
    /\ UNCHANGED <<lockVars, v, heap, obsVars, budget>>

\* With with the callback  func(v *int) { *v = 100 }
CbPut(t) ==
    /\ At(t, "body") /\ Top(t).op = "With" /\ Top(t).cb = "put"
    /\ v' = Top(t).arg
    /\ stack' = Goto(t, "exit")
    /\ UNCHANGED <<lockVars, heap, obsVars, budget>>

SeqOps ==
    {<<"Get", "none", 0>>, <<"RWith", "read", 0>>}
    \cup {<<"Set", "none", x>> : x \in SetVals}
    \cup {<<"With", "put", x>> : x \in PutVals}

CallSeq(t) ==
    /\ t \in SeqThreads
    /\ MayCall(t)
    /\ Charge(t)
    /\ \E o \in SeqOps :
          stack' = [stack EXCEPT ![t] = <<[Frame(o[1], o[2], o[3], TRUE) EXCEPT !.who = t]>>]
    /\ UNCHANGED <<lockVars, v, heap, obsVars>>

InitSeq ==
    /\ LockInit /\ NoCalls
    /\ v = InitVal
    /\ heap = <<>>
    /\ budget = MaxSeqCalls

NextSeq ==
    \E t \in Threads :
        \/ CallSeq(t) \/ LockNext(t)
        \/ GetBody(t) \/ SetBody(t) \/ CbRead(t) \/ CbPut(t)

SpecSeq == InitSeq /\ [][NextSeq]_vars

\* ---- a key is stored, and then every thread makes one call that removes it
\* or looks it up

TakeKey == 1
TakeVal == 10
TakeOps == {<<"LoadAndDelete", "none", TakeKey>>, <<"Delete", "none", TakeKey>>,
            <<"Clear", "none", 0>>, <<"Load", "none", TakeKey>>}

\* m.Store(TakeKey, TakeVal), the first call made.
StoreFirst(t) ==
    /\ t = 1 /\ Idle(t) /\ hist = <<>>
    /\ stack' = [stack EXCEPT ![t] = <<Frame("Store", "none", <<TakeKey, TakeVal>>, TRUE)>>]
    /\ UNCHANGED <<lockVars, v, heap, obsVars, budget>>

\* The recorded calls that thread t made after the Store.
TakesOf(t) == {i \in 1..Len(hist) : hist[i].who = t}

\* A thread that has not yet done so makes its call, while the key is still
\* in the map with its value.
CallTake(t) ==
    /\ Idle(t) /\ TakesOf(t) = {}
    /\ MapGet(v, TakeKey) = [val |-> TakeVal, ok |-> TRUE]
    /\ \E o \in TakeOps :
          stack' = [stack EXCEPT ![t] = <<[Frame(o[1], o[2], o[3], TRUE) EXCEPT !.who = t]>>]
    /\ UNCHANGED <<lockVars, v, heap, obsVars, budget>>

InitTake ==
    /\ LockInit /\ NoCalls
    /\ v = EmptyMap
    /\ heap = <<>>
    /\ budget = 0

NextTake ==
    \E t \in Threads :
        \/ StoreFirst(t) \/ CallTake(t) \/ LockNext(t)
        \/ StoreBody(t) \/ LoadAndDeleteLoad(t) \/ LoadAndDeleteDelete(t)
        \/ DeleteBody(t) \/ MapClear(t) \/ LoadBody(t)

SpecTake == InitTake /\ [][NextTake]_vars

\* ---- a guard of either kind, a slice guard or a map guard, in use

MaxClearCalls == 3

\* The guard is a slice guard: it has the arrays of its slices (a map guard has none).
IsSliceGuard == heap # <<>>

InitEither ==
    /\ LockInit /\ NoCalls
    /\ \/ v = NilSlice /\ heap = << <<>> >>
       \/ v = EmptyMap /\ heap = <<>>
    /\ budget = MaxClearCalls

NextEither ==
    \/ IsSliceGuard /\ NextSlice
    \/ ~IsSliceGuard /\ NextMap

SpecEither == InitEither /\ [][NextEither]_vars

\* ---- the value guard under a fair scheduler: a goroutine that can take a step
\* of the call it is in (the lock lets it in, or it is inside) takes one in the end

MaxLiveCalls == 3
\* Calls that return, and a call whose callback panics.
LiveOps == {<<"Get", "none", 0>>, <<"With", "incr", 0>>, <<"RWith", "panic", 0>>}

CallLive(t) ==
    /\ MayCall(t)
    /\ Charge(t)
    /\ \E o \in LiveOps : stack' = [stack EXCEPT ![t] = <<Frame(o[1], o[2], o[3], FALSE)>>]
    /\ UNCHANGED <<lockVars, v, heap, obsVars>>

InitLive ==
    /\ LockInit /\ NoCalls
    /\ v = InitVal
    /\ heap = <<>>
    /\ budget = MaxLiveCalls

LiveStep(t) ==
    \/ LockNext(t) \/ GetBody(t) \/ CbIncrLoad(t) \/ CbIncrStore(t) \/ CbPanic(t)

NextLive == \E t \in Threads : CallLive(t) \/ LiveStep(t)

FairSpec == InitLive /\ [][NextLive]_vars /\ \A t \in Threads : WF_vars(LiveStep(t))

\* ---- who is where

Frames(t) == {stack[t][i] : i \in 1..Depth(t)}
\* The frame's body (for the scoped methods: its callback) is executing.
InBody(f) == f.pc \notin {"call", "rsem", "wsem", "exit"}
\* The frame holds the lock: it has acquired it and not yet run its deferred unlock.
Holds(f) == f.pc \notin {"call", "rsem", "wsem"}
WriterCbs == {t \in Threads : \E f \in Frames(t) : Kind(f.op) = "W" /\ InBody(f)}
ReaderCbs == {t \in Threads : \E f \in Frames(t) : Kind(f.op) = "R" /\ InBody(f)}
WriteHeld == \E t \in Threads : \E f \in Frames(t) : Kind(f.op) = "W" /\ Holds(f)
BlockedReaders == {t \in Threads : At(t, "rsem")}
AllIdle == \A t \in Threads : Idle(t)

\* C1: at most one writer body is executing, or any number of reader bodies,
\* and never a writer body at the same time as a reader body.
C1_MutualExclusion ==
    /\ Cardinality(WriterCbs) <= 1
    /\ WriterCbs # {} => ReaderCbs = {}

\* A writer body runs while a reader and another writer are kept out.
C1_Witness ==
    /\ WriterCbs # {}
    /\ BlockedReaders # {}
    /\ \E t \in Threads : At(t, "call") /\ Kind(Top(t).op) = "W"

\* C7 as stated: with no thread holding the write lock, a Get is never left
\* blocked in RLock, whatever writers are waiting.
C7_GetBlocksOnlyOnHolder ==
    \A t \in Threads :
        At(t, "rsem") /\ Top(t).op = "Get" /\ readerSem = 0 => WriteHeld

\* C7 amended: a Get blocked in RLock with no wake-up posted for it means a
\* writer holds the lock or has announced itself and waits for the readers
\* inside to leave (w is taken); with w free every blocked reader has its wake-up.
C7_GetBlocksOnlyOnWriter ==
    (\E t \in Threads : At(t, "rsem") /\ Top(t).op = "Get")
        => (w # 0 \/ readerSem >= Cardinality(BlockedReaders))

\* A Get is blocked although no thread holds the write lock: a reader is inside
\* and a writer waits for it.
C7_Witness ==
    /\ \E t \in Threads : At(t, "rsem") /\ Top(t).op = "Get"
    /\ ~WriteHeld
    /\ ReaderCbs # {}
    /\ \E t \in Threads : At(t, "wsem")

\* C8: with no Set in play, once every call has returned the value is the initial
\* value plus the number of With calls whose callback read it and wrote it back
\* plus one (done["incr"] counts them).
C8_NoLostIncrement ==
    (AllIdle /\ done["Set"] = 0) => v = InitVal + done["incr"]

\* Three increments have all returned.
C8_Witness ==
    AllIdle /\ done["Set"] = 0 /\ done["incr"] >= 3

\* The readers RLock has counted and RUnlock has not: readerCount without the
\* announced writer's offset.
ReadersIn == IF readerCount < 0 THEN readerCount + rwmutexMaxReaders ELSE readerCount
ReadFrames == {<<t, i>> \in Threads \X (1..2) :
                  i <= Depth(t) /\ Kind(stack[t][i].op) = "R" /\ stack[t][i].pc # "call"}
WriteFrames == {<<t, i>> \in Threads \X (1..2) :
                  i <= Depth(t) /\ Kind(stack[t][i].op) = "W" /\ stack[t][i].pc # "call"}

\* C4: the lock is held only on behalf of calls still in progress: every call
\* that has exited (returned, returned an error or panicked) has given back the
\* read or write lock it took, so a thread with no call in progress holds neither.
C4_ReleasedOnEveryExit ==
    /\ ReadersIn = Cardinality(ReadFrames)
    /\ (w = 0) = (WriteFrames = {})
    /\ w # 0 => \E i \in 1..Depth(w) : <<w, i>> \in WriteFrames

\* A callback has panicked and another has returned an error, and the lock was
\* free for a later writer, whose body is now running.
C4_Witness ==
    /\ done["panic"] > 0
    /\ done["error"] > 0
    /\ WriterCbs # {}

DeleteAt(s, k) == [j \in 1..(Len(s) - 1) |-> IF j < k THEN s[j] ELSE s[j + 1]]

RemoveDone == {t \in Threads : At(t, "exit") /\ Top(t).op = "Remove"}

\* C9: Remove(i) with i < 0 or i >= length has panicked when its body is over,
\* and the guarded sequence is then what it was when the body started.
C9_RemoveOutOfBoundsPanics ==
    \A t \in RemoveDone :
        LET f == Top(t) IN
        (f.arg < 0 \/ f.arg >= Len(f.pre)) => (f.res.panicked /\ Contents(v) = f.pre)

\* Remove has panicked on an index past the end of a non-empty sequence.
C9_Witness ==
    \E t \in RemoveDone :
        Top(t).res.panicked /\ Len(Top(t).pre) > 0 /\ Top(t).arg >= Len(Top(t).pre)

\* C10: Remove(i) with 0 <= i < length does not panic, returns the element that
\* was at index i, and leaves the sequence it found with that element left out.
C10_RemoveShiftsDown ==
    \A t \in RemoveDone :
        LET f == Top(t) IN
        (0 <= f.arg /\ f.arg < Len(f.pre))
            => /\ ~f.res.panicked
               /\ f.res.val = f.pre[f.arg + 1]
               /\ Contents(v) = DeleteAt(f.pre, f.arg + 1)

\* Remove(1) has run on a sequence of three elements: one before, one after.
C10_Witness ==
    \E t \in RemoveDone :
        Top(t).arg = 1 /\ Len(Top(t).pre) = 3 /\ ~Top(t).res.panicked

\* C5: what a caller got back from the guard is a copy: the caller's write to it
\* has not changed the guarded sequence, and as long as the caller has not
\* written to it, it still shows the elements it showed when it was returned.
C5_ReturnsOnlyCopies ==
    \A t \in Threads :
        /\ ~held[t].hit
        /\ ~held[t].wrote => Contents(held[t].hdr) = held[t].snap

\* ---- a plain map, used by one caller at a time

\* The map after the call c, and what the call returns.
SeqAfter(m, c) ==
    CASE c.op = "Store" -> MapPut(m, c.arg[1], c.arg[2])
      [] c.op \in {"LoadAndDelete", "Delete"} -> MapDelete(m, c.arg)
      [] c.op = "Clear" -> EmptyMap
      [] OTHER -> m
SeqResult(m, c) ==
    CASE c.op \in {"Load", "LoadAndDelete"} -> [NoRes EXCEPT !.val = MapGet(m, c.arg).val,
                                                             !.ok = MapGet(m, c.arg).ok]
      [] c.op = "Len" -> [NoRes EXCEPT !.val = MapLen(m)]
      [] OTHER -> NoRes

\* The calls hist[i], i in todo, can be put in an order, starting on the map m,
\* in which each returns what it returned in hist, and no call comes before one
\* that had returned when it was made.
RECURSIVE Linearizable(_, _)
Linearizable(m, todo) ==
    \/ todo = {}
    \/ \E i \in todo :
          /\ \A j \in todo : j > hist[i].seen
          /\ SeqResult(m, hist[i]) = hist[i].res
          /\ Linearizable(SeqAfter(m, hist[i]), todo \ {i})

\* C2: when every call made on the map has returned, the calls have an order,
\* consistent with which call returned before which was made, in which a plain
\* map returns to each call what the guarded map returned.
C2_MapLinearizable ==
    AllIdle => Linearizable(EmptyMap, 1..Len(hist))

\* A LoadAndDelete that found the key, a Store and a Load that found nothing
\* have all returned, each made before any other had returned.
C2_Witness ==
    /\ AllIdle /\ Len(hist) = 3
    /\ \A i \in 1..3 : hist[i].seen < 2
    /\ \E i, j, k \in 1..3 :
          /\ hist[i].op = "LoadAndDelete" /\ hist[i].res.ok
          /\ hist[j].op = "Store" /\ hist[j].seen = 0
          /\ hist[k].op = "Load" /\ ~hist[k].res.ok

\* Every goroutine of the test has returned from every call it makes.
AccessDone == AllIdle /\ Len(hist) = NThreads + 1

\* C3: in the concurrent-access test, as long as a call is still to be made
\* or to return, some goroutine can take a step; and when all have returned,
\* the map has one entry for each writer, the writer's key with its value.
C3_NoLostStore ==
    /\ ~AccessDone => ENABLED NextAccess
    /\ AccessDone => /\ MapLen(v) = Cardinality(Writers)
                     /\ \A i \in Writers : MapGet(v, i) = [val |-> 10 * i, ok |-> TRUE]

\* All have returned, and the reader's Len ran after one Store and before another.
C3_Witness ==
    /\ AccessDone
    /\ \E i \in 1..Len(hist) :
          hist[i].op = "Len" /\ hist[i].res.val > 0 /\ hist[i].res.val < Cardinality(Writers)

\* What the callback of a recorded call returned: the callback "fail" returns
\* the error "fail", the others return nil.
CbReturned(c) == IF c.cb = "fail" THEN "fail" ELSE "nil"

\* C11: every RWithE / WithE call that has returned handed its caller what its
\* callback returned, the callback's error or nil; and the caller, back from
\* the call, holds neither the write lock nor a read lock.
C11_ErrorPropagated ==
    /\ \A i \in 1..Len(hist) : hist[i].res.err = CbReturned(hist[i])
    /\ \A t \in Threads : Idle(t) => w # t
    /\ ReadersIn = Cardinality(ReadFrames)

\* A WithE whose callback failed, an RWithE whose callback failed and a call
\* whose callback returned nil have all returned, and nobody holds the lock.
C11_Witness ==
    /\ AllIdle /\ w = 0 /\ readerCount = 0
    /\ \E i, j, k \in 1..Len(hist) :
          /\ hist[i].op = "WithE" /\ hist[i].res.err = "fail"
          /\ hist[j].op = "RWithE" /\ hist[j].res.err = "fail"
          /\ hist[k].res.err = "nil"

\* The recorded call j is a Get that follows the Set i, or an RWith that
\* follows the With i, as the next call of the same thread.
ReadsBack(i, j) ==
    /\ i < j /\ hist[i].who = hist[j].who
    /\ <<hist[i].op, hist[j].op>> \in {<<"Set", "Get">>, <<"With", "RWith">>}
    /\ \A k \in (i + 1)..(j - 1) : hist[k].who # hist[i].who

\* No other recorded write overlaps the call i or falls between it and the
\* call j: each had returned when i was made, or was made after j had returned.
NoWriteAmid(i, j) ==
    \A m \in 1..Len(hist) :
        (m # i /\ hist[m].op \in {"Set", "With"}) => (m <= hist[i].seen \/ hist[m].seen >= j)

\* C12 as stated: the Get that follows a Set(x) on the same thread returns x,
\* and the RWith that follows a With is passed the value the With left.
C12_ReadsOwnWrite ==
    \A i, j \in 1..Len(hist) : ReadsBack(i, j) => hist[j].res.val = hist[i].arg

\* C12: when all calls have returned, the Get that followed a Set(x) on the
\* same thread returned x, and the RWith that followed a With was passed the
\* value the With left, wherever no other write overlapped the Set (With) or
\* fell between it and the Get (RWith).
C12_ReadsOwnWriteUndisturbed ==
    AllIdle =>
        \A i, j \in 1..Len(hist) :
            (ReadsBack(i, j) /\ NoWriteAmid(i, j)) => hist[j].res.val = hist[i].arg

\* Another thread's Set had returned before a thread made its With and then
\* its RWith, which was passed what the With wrote.
C12_Witness ==
    /\ AllIdle
    /\ \E i, j, m \in 1..Len(hist) :
          /\ ReadsBack(i, j) /\ NoWriteAmid(i, j)
          /\ hist[i].op = "With"
          /\ hist[m].op = "Set" /\ hist[m].who # hist[i].who /\ hist[m].arg # hist[i].arg

MapWrites == {"Store", "LoadAndDelete", "Delete", "Clear"}

\* The recorded Load j of the key of the call i was made when i had returned,
\* and no other recorded write of the map overlaps i or j or falls between them.
LoadsAfter(i, j) ==
    /\ hist[j].op = "Load" /\ i <= hist[j].seen
    /\ \A m \in 1..Len(hist) :
          (m # i /\ hist[m].op \in MapWrites) => (m <= hist[i].seen \/ hist[m].seen >= j)

MapCallDone(op) == {t \in Threads : At(t, "exit") /\ Top(t).op = op}

\* C13: with no other writer about, the Load that follows Store(k, x) returns
\* (x, true), the Load that follows Delete(k) returns (0, false), and a Delete
\* of a key that was absent has left the map as it found it.
C13_StoreDeleteLoad ==
    /\ AllIdle =>
          \A i, j \in 1..Len(hist) :
              /\ (hist[i].op = "Store" /\ LoadsAfter(i, j) /\ hist[j].arg = hist[i].arg[1])
                     => (hist[j].res.val = hist[i].arg[2] /\ hist[j].res.ok)
              /\ (hist[i].op = "Delete" /\ LoadsAfter(i, j) /\ hist[j].arg = hist[i].arg)
                     => (hist[j].res.val = 0 /\ ~hist[j].res.ok)
    /\ \A t \in MapCallDone("Delete") :
          Top(t).arg \notin DOMAIN Top(t).pre => v = Top(t).pre

\* A key was stored, stored again with another value, and then loaded, one
\* call after the other.
C13_Witness ==
    /\ AllIdle /\ Len(hist) = 3
    /\ hist[1].op = "Store" /\ hist[2].op = "Store" /\ hist[2].seen = 1
    /\ hist[1].arg[1] = hist[2].arg[1] /\ hist[1].arg[2] # hist[2].arg[2]
    /\ LoadsAfter(2, 3) /\ hist[3].arg = hist[2].arg[1]

\* C14: LoadAndDelete(k) that found k with the value x returns (x, true) and
\* leaves a map without k, one entry smaller, the other entries as they were;
\* LoadAndDelete(k) that did not find k returns (0, false) and leaves the map
\* as it found it.
C14_LoadAndDelete ==
    \A t \in MapCallDone("LoadAndDelete") :
        LET f == Top(t)
            k == f.arg
        IN  IF k \in DOMAIN f.pre
            THEN /\ f.res.val = f.pre[k] /\ f.res.ok
                 /\ MapGet(v, k) = [val |-> 0, ok |-> FALSE]
                 /\ MapLen(v) = MapLen(f.pre) - 1
                 /\ \A j \in DOMAIN v : v[j] = f.pre[j]
            ELSE /\ f.res.val = 0 /\ ~f.res.ok
                 /\ v = f.pre

\* LoadAndDelete has found its key in a map of two entries.
C14_Witness ==
    \E t \in MapCallDone("LoadAndDelete") :
        Top(t).arg \in DOMAIN Top(t).pre /\ MapLen(Top(t).pre) = 2

\* The recorded LoadAndDelete calls, and those of them that got the value.
Takes == {i \in 1..Len(hist) : hist[i].op = "LoadAndDelete"}
Took == {i \in Takes : hist[i].res.val = TakeVal /\ hist[i].res.ok}
\* Several threads called LoadAndDelete while the key was in the map, and all
\* the calls made have returned.
TakesOver == AllIdle /\ Cardinality(Takes) >= 2

\* C15 as stated: of several LoadAndDelete(k) calls made while k is in the map
\* with the value x, and with no Store(k, _) at the same time, exactly one
\* returns (x, true) and every other returns (0, false).
C15_ExactlyOneTakes ==
    TakesOver =>
        /\ Cardinality(Took) = 1
        /\ \A i \in Takes \ Took : hist[i].res.val = 0 /\ ~hist[i].res.ok

\* C15: the same, where the calls made at the same time are LoadAndDelete(k)
\* or Load(k): no Store(k, _), Delete(k) or Clear().
C15_ExactlyOneTakesAlone ==
    (TakesOver /\ \A i \in 2..Len(hist) : hist[i].op \in {"LoadAndDelete", "Load"}) =>
        /\ Cardinality(Took) = 1
        /\ \A i \in Takes \ Took : hist[i].res.val = 0 /\ ~hist[i].res.ok

\* Every thread has called LoadAndDelete before any of these calls had
\* returned, and all have returned.
C15_Witness ==
    /\ TakesOver /\ Len(hist) = NThreads + 1
    /\ \A i \in 2..Len(hist) : i \in Takes /\ hist[i].seen = 1

SliceCallDone(op) == {t \in Threads : At(t, "exit") /\ Top(t).op = op}

\* C16: Append has left the sequence it found with its arguments after it, in
\* argument order; Unshift has left the sequence it found with its item before
\* it; and Clone returns the elements of the guarded sequence, in order.
C16_AppendUnshiftReference ==
    /\ \A t \in SliceCallDone("Append") : Contents(v) = Top(t).pre \o Top(t).arg
    /\ \A t \in SliceCallDone("Unshift") : Contents(v) = <<Top(t).arg>> \o Top(t).pre
    /\ \A t \in SliceCallDone("Clone") : Contents(Top(t).res.hdr) = Contents(v)

\* Clone returns three elements: the item of an Unshift, then the two arguments
\* of an Append made before it.
C16_Witness ==
    \E t \in SliceCallDone("Clone") :
        LET s == Contents(Top(t).res.hdr)
        IN  Len(s) = 3 /\ s[1] % 10 = 0 /\ s[2] % 10 = 1 /\ s[3] % 10 = 2

\* C17: a caller's writes to a clone it got have not changed the guarded
\* sequence, and the clone shows what it showed when it was returned, but for
\* what its holder wrote to it, whatever the guard has been through since.
C17_CloneIndependent ==
    \A t \in Threads :
        held[t].from = "Clone" => (~held[t].hit /\ Contents(held[t].hdr) = held[t].snap)

\* A thread has written to the clone it holds, and the guarded sequence has
\* become shorter than the clone since.
C17_Witness ==
    \E t \in Threads :
        /\ held[t].from = "Clone" /\ held[t].wrote
        /\ 0 < v.len /\ v.len < held[t].hdr.len

Traversals == {t \in Threads : ~Idle(t) /\ Top(t).op = "Each" /\ Top(t).pc \in {"loop", "exit"}}

\* C19: during a traversal by Each the guarded slice is the one the traversal
\* was handed, and the elements passed to the callback when the traversal is
\* over are, in order, a sequence the guard has shown at one time since the
\* traversal began.
C19_EachSnapshot ==
    \A t \in Traversals :
        /\ v = Top(t).hdr
        /\ Top(t).pc = "exit" => Top(t).res.seq \in Top(t).shown

\* C18: when Clear's callback is over, whatever calls came before, a slice
\* guard has length 0 and a clone of it is an empty slice that is not nil, and
\* a map guard has no entry: its length is 0 and no key is found in it.
C18_ClearEmpties ==
    \A t \in Threads :
        (At(t, "exit") /\ Top(t).op = "Clear") =>
            IF IsSliceGuard
            THEN /\ v.len = 0
                 /\ GoMakeCopy(v).hdr.len = 0 /\ GoMakeCopy(v).hdr.ptr # NilSlice.ptr
            ELSE /\ MapLen(v) = 0
                 /\ \A k \in Keys : ~MapGet(v, k).ok

\* Clear has run on a slice guard that held two elements or more.
C18_Witness ==
    \E t \in Threads :
        /\ At(t, "exit") /\ Top(t).op = "Clear"
        /\ IsSliceGuard /\ Len(Top(t).pre) >= 2

\* C20: under fair scheduling, every call that a thread has made returns.
C20_EveryCallReturns ==
    \A t \in Threads : (~Idle(t)) ~> Idle(t)

\* A writer waits for a reader that is inside to leave, and behind that writer
\* a reader and nobody else waits to get in.
C20_Witness ==
    \E r, x, y \in Threads :
        /\ At(r, "body") /\ Kind(Top(r).op) = "R"
        /\ At(x, "wsem")
        /\ At(y, "rsem")
        /\ budget = 0

====
